---- MODULE Spec2Model ----
(***************************************************************************)
(* Home Connect integration (homeassistant/components/home_connect):       *)
(* the appliance registry hass.data[DOMAIN], the entity resolver, the      *)
(* seven command services, the throttled poller and the config-entry       *)
(* lifecycle (async_setup, async_setup_entry, async_unload_entry).         *)
(*                                                                         *)
(* Every await of the source is a scheduling point: a coroutine is cut     *)
(* into one action per stretch of code between two awaits.                 *)
(***************************************************************************)
EXTENDS Integers, Sequences, FiniteSets, TLC

----------------------------------------------------------------------------
(* Bounds of the model *)

\* the clock advances in steps of TickStep seconds, up to MaxTime
TickStep == 45
MaxTime == 90
\* service calls the model follows
MaxDispatches == 1

----------------------------------------------------------------------------
(* Constants of the program *)

\* timedelta(seconds=1), in seconds
SCAN_INTERVAL_Seconds == 1 * 1
\* SCAN_INTERVAL = timedelta(minutes=1), in seconds
SCAN_INTERVAL == 1 * 60

PLATFORMS == <<"binary_sensor", "light", "sensor", "switch">>
PlatformSet == {PLATFORMS[i] : i \in 1..Len(PLATFORMS)}

\* service names and the vendor method each one is bound to
SERVICE_OPTION_ACTIVE == "set_option_active"
SERVICE_OPTION_SELECTED == "set_option_selected"
SERVICE_SETTING == "change_setting"
SERVICE_PAUSE == "pause_program"
SERVICE_RESUME == "resume_program"
SERVICE_SELECT == "select_program"
SERVICE_START == "start_program"
BSH_PAUSE == "BSH.Common.Command.PauseProgram"
BSH_RESUME == "BSH.Common.Command.ResumeProgram"

KeyValueServices == {SERVICE_OPTION_ACTIVE, SERVICE_OPTION_SELECTED, SERVICE_SETTING}
CommandServices == {SERVICE_PAUSE, SERVICE_RESUME}
ProgramServices == {SERVICE_SELECT, SERVICE_START}
AllServices == KeyValueServices \cup CommandServices \cup ProgramServices

----------------------------------------------------------------------------
(* Python values carried by service calls *)

NoneV == [t |-> "none", n |-> 0, s |-> ""]
IntV(i) == [t |-> "int", n |-> i, s |-> ""]
StrV(x) == [t |-> "str", n |-> 0, s |-> x]

Digits == <<"0", "1", "2", "3", "4", "5", "6", "7", "8", "9">>

RECURSIVE NatToStr(_)
NatToStr(i) ==
    IF i < 10 THEN Digits[i + 1]
    ELSE NatToStr(i \div 10) \o Digits[(i % 10) + 1]

\* str(v) of Python for the values of the model
PyStr(v) ==
    CASE v.t = "int" -> StrV(IF v.n < 0 THEN "-" \o NatToStr(0 - v.n) ELSE NatToStr(v.n))
      [] v.t = "str" -> v
      [] OTHER -> StrV("None")

\* a schema that takes the value as it comes
CoerceIdentity(v) == v
\* vol.Coerce(str)
CoerceStr(v) == PyStr(v)

----------------------------------------------------------------------------
(* The world outside: accounts, the vendor's appliances, the host's entities *)

Accounts == {"acc1", "acc2"}

\* what the vendor API lists for an account
VendorAppliances(a) == IF a = "acc1" THEN <<"washer", "oven">> ELSE <<"dryer">>

\* the entity identifiers an entity platform creates for a device
PlatformEntities(appliance, platform) ==
    CASE platform = "switch" -> {"switch." \o appliance}
      [] platform = "sensor" /\ appliance = "washer" -> {"sensor.washer"}
      [] OTHER -> {}

Appliances ==
    UNION {{VendorAppliances(a)[i] : i \in 1..Len(VendorAppliances(a))} : a \in Accounts}
\* every entity identifier a platform can create, and one that nothing owns
EntityIds ==
    UNION {PlatformEntities(x, p) : x \in Appliances, p \in PlatformSet}
      \cup {"switch.ghost"}

\* the account an appliance handle belongs to
OwnerOf(appliance) ==
    CHOOSE a \in Accounts :
        \E i \in 1..Len(VendorAppliances(a)) : VendorAppliances(a)[i] = appliance

----------------------------------------------------------------------------
(* hass.data[DOMAIN]: a dict, kept in insertion order, entry_id -> client *)

EmptyRegistry == <<>>
Has(reg, a) == \E i \in 1..Len(reg) : reg[i].entry_id = a
IndexOf(reg, a) == CHOOSE i \in 1..Len(reg) : reg[i].entry_id = a
Get(reg, a) == reg[IndexOf(reg, a)]
\* data[entry_id] = client
Put(reg, a, client) ==
    IF Has(reg, a)
    THEN [reg EXCEPT ![IndexOf(reg, a)] = [entry_id |-> a, devices |-> client.devices]]
    ELSE Append(reg, [entry_id |-> a, devices |-> client.devices])
\* data.pop(entry_id)
Pop(reg, a) == SelectSeq(reg, LAMBDA r : r.entry_id # a)
SetDevices(reg, a, devs) == [reg EXCEPT ![IndexOf(reg, a)].devices = devs]

\* api.ConfigEntryAuth(hass, entry, implementation): a client with no devices yet
NewClient == [devices |-> <<>>]

\* ConfigEntryAuth.get_devices: one fresh device wrapper per appliance listed
FreshDevices(a) ==
    [i \in 1..Len(VendorAppliances(a)) |->
        [appliance |-> VendorAppliances(a)[i], entities |-> {}, initialized |-> FALSE]]

\* an entity platform adds its entities to the wrappers of the account's devices
AttachEntities(devs, platform) ==
    [i \in 1..Len(devs) |->
        [devs[i] EXCEPT !.entities = @ \cup PlatformEntities(devs[i].appliance, platform)]]

----------------------------------------------------------------------------
(* _get_appliance_by_entity_id *)

NoTarget == "None"

RECURSIVE ScanDevices(_, _, _)
ScanDevices(devs, entity_id, i) ==
    IF i > Len(devs) THEN NoTarget
    ELSE IF entity_id \in devs[i].entities THEN devs[i].appliance
    ELSE ScanDevices(devs, entity_id, i + 1)

RECURSIVE ScanAccounts(_, _, _)
ScanAccounts(reg, entity_id, k) ==
    IF k > Len(reg) THEN NoTarget
    ELSE LET found == ScanDevices(reg[k].devices, entity_id, 1)
         IN IF found # NoTarget THEN found ELSE ScanAccounts(reg, entity_id, k + 1)

\* a resolver that knows every appliance by its entities, registered or not
GetApplianceIgnoringRegistry(reg, entity_id) ==
    LET hit == {x \in Appliances : \E p \in PlatformSet : entity_id \in PlatformEntities(x, p)}
    IN IF hit = {} THEN NoTarget ELSE CHOOSE x \in hit : TRUE

\* a resolver whose innermost test forgets to compare the identifier
GetApplianceNoCompare(reg, entity_id) ==
    LET hit == {<<k, i>> \in (1..Len(reg)) \X (1..2) :
                  i <= Len(reg[k].devices) /\ reg[k].devices[i].entities # {}}
    IN IF hit = {} THEN NoTarget
       ELSE LET first == CHOOSE h \in hit : \A g \in hit :
                            h[1] < g[1] \/ (h[1] = g[1] /\ h[2] <= g[2])
            IN reg[first[1]].devices[first[2]].appliance

_get_appliance_by_entity_id(reg, entity_id) == ScanAccounts(reg, entity_id, 1)

\* the entity belongs to a device of an account that is in the registry
Owned(reg, entity_id) ==
    \E k \in 1..Len(reg) : \E i \in 1..Len(reg[k].devices) :
        entity_id \in reg[k].devices[i].entities

----------------------------------------------------------------------------
(* Service calls: schemas, option bundling, the vendor call made *)

ATTR_KEY == "key"
ATTR_VALUE == "value"
ATTR_UNIT == "unit"

NoOptions == [kind |-> "none", items |-> <<>>]
NotPassed == [kind |-> "absent", items |-> <<>>]
OptionDict(keys, k, v, u) == [keys |-> keys, key |-> k, value |-> v, unit |-> u]

\* bundling that tests the truth value of key and value instead of "is not None"
BuildOptionsTruthy(option_key, option_value, option_unit) ==
    IF option_key \notin {NoneV, StrV("")} /\ option_value \notin {NoneV, StrV(""), IntV(0)}
    THEN [kind |-> "list",
          items |-> << IF option_unit # NoneV
                       THEN OptionDict({ATTR_KEY, ATTR_VALUE, ATTR_UNIT},
                                       option_key, option_value, option_unit)
                       ELSE OptionDict({ATTR_KEY, ATTR_VALUE},
                                       option_key, option_value, NoneV) >>]
    ELSE NoOptions

\* _async_service_program, lines 122-131
BuildOptions(option_key, option_value, option_unit) ==
    IF option_key # NoneV /\ option_value # NoneV
    THEN [kind |-> "list",
          items |-> << IF option_unit # NoneV
                       THEN OptionDict({ATTR_KEY, ATTR_VALUE, ATTR_UNIT},
                                       option_key, option_value, option_unit)
                       ELSE OptionDict({ATTR_KEY, ATTR_VALUE},
                                       option_key, option_value, NoneV) >>]
    ELSE NoOptions

\* the request as the caller sends it; NoneV stands for a field left out
Request(entity_id, program, key, value, okey, ovalue, ounit) ==
    [entity_id |-> entity_id, program |-> program, key |-> key, value |-> value,
     option_key |-> okey, option_value |-> ovalue, option_unit |-> ounit]

\* SERVICE_SETTING_SCHEMA / SERVICE_PROGRAM_SCHEMA / SERVICE_COMMAND_SCHEMA:
\* the call data the handler receives
Validate(service, req) ==
    IF service \in KeyValueServices
    THEN [req EXCEPT !.value = CoerceStr(req.value)]
    ELSE req

\* the vendor method a key-value service is bound to (lines 159-181)
KeyValueMethod(service) ==
    CASE service = SERVICE_OPTION_ACTIVE -> "set_options_active_program"
      [] service = SERVICE_OPTION_SELECTED -> "set_options_selected_program"
      [] OTHER -> "set_setting"

\* the executor job a handler submits for validated call data and a target
VendorJob(service, d, appliance) ==
    CASE service \in ProgramServices ->
            [appliance |-> appliance, method |-> service, args |-> <<d.program>>,
             options |-> BuildOptions(d.option_key, d.option_value, d.option_unit)]
      [] service \in CommandServices ->
            [appliance |-> appliance, method |-> "execute_command",
             args |-> <<StrV(IF service = SERVICE_PAUSE THEN BSH_PAUSE ELSE BSH_RESUME)>>,
             options |-> NotPassed]
      [] OTHER ->
            [appliance |-> appliance, method |-> KeyValueMethod(service),
             args |-> <<d.key, d.value>>, options |-> NotPassed]

----------------------------------------------------------------------------
(* State *)

VARIABLES
    phase,          \* "boot" before async_setup has run, "running" after
    configured,     \* DOMAIN in config, as async_setup saw it
    setupResult,    \* what async_setup returned
    services,       \* the services registered with hass.services
    data,           \* hass.data[DOMAIN]
    entry,          \* the host's state of each config entry
    pc,             \* where the entry's async_setup_entry is suspended
    idx,            \* the device update_all_devices is initializing
    throttle,       \* Throttle(SCAN_INTERVAL): time of the last run, per account
    now,            \* the clock, in seconds
    pending,        \* platform setup tasks created and not yet run
    jobs,           \* vendor calls submitted to the executor, still running
    calls,          \* vendor calls completed, in order
    pollLog,        \* history: how the entry's latest poll cycle went
    cachedBefore,   \* history: the client's device list when that cycle began
    forwarded,      \* history: platforms the latest setup forwarded to
    lastTrig,       \* history: the time of the latest trigger of the poller, per account
    lastFetch,      \* history: the time get_devices was last submitted, per account
    unloadResults,  \* history: what the four teardowns of the latest unload reported
    unloadReturn,   \* history: what the latest async_unload_entry returned
    dispatched,     \* the number of service calls handled so far
    observe,        \* whether service calls are recorded in lastDispatch
    lastDispatch    \* history: the latest service call and what became of it

vars == <<phase, configured, setupResult, services, data, entry, pc, idx, throttle, now,
          pending, jobs, calls, pollLog, cachedBefore, forwarded, lastTrig,
          lastFetch, unloadResults, unloadReturn, dispatched, observe, lastDispatch>>

lifecycleVars == <<entry, pc, idx, throttle, pending, pollLog, cachedBefore, forwarded,
                   lastTrig, lastFetch, unloadResults, unloadReturn>>
startupVars == <<phase, configured, setupResult, services>>
callVars == <<jobs, calls, dispatched, observe, lastDispatch>>

NoDispatch == [service |-> "none", entity_id |-> "none", owned |-> FALSE,
               target |-> NoTarget, outcome |-> "none",
               request |-> Request("none", NoneV, NoneV, NoneV, NoneV, NoneV, NoneV),
               submitted |-> <<>>]

Init ==
    /\ phase = "boot"
    /\ configured = FALSE
    /\ setupResult = "none"
    /\ services = {}
    /\ data = EmptyRegistry
    /\ entry = [a \in Accounts |-> "not_loaded"]
    /\ pc = [a \in Accounts |-> "idle"]
    /\ idx = [a \in Accounts |-> 0]
    /\ throttle = [a \in Accounts |-> <<>>]
    /\ now = 0
    /\ pending = [a \in Accounts |-> {}]
    /\ jobs = <<>>
    /\ calls = <<>>
    /\ pollLog = [a \in Accounts |-> "none"]
    /\ cachedBefore = [a \in Accounts |-> <<>>]
    /\ forwarded = [a \in Accounts |-> {}]
    /\ lastTrig = [a \in Accounts |-> <<>>]
    /\ lastFetch = [a \in Accounts |-> <<>>]
    /\ unloadResults = [a \in Accounts |-> <<>>]
    /\ unloadReturn = [a \in Accounts |-> "none"]
    /\ dispatched = 0
    /\ observe = FALSE
    /\ lastDispatch = NoDispatch

----------------------------------------------------------------------------
(* async_setup *)

\* a registration placed before the early return
RegisterAlways(inConfig) == AllServices
\* lines 103-104 and 187-213: the services are registered past the early return only
RegisteredServices(inConfig) == IF inConfig THEN AllServices ELSE {}

async_setup(inConfig) ==
    /\ phase = "boot"
    /\ phase' = "running"
    /\ data' = EmptyRegistry
    /\ configured' = inConfig
    /\ services' = RegisteredServices(inConfig)
    /\ setupResult' = "true"
    /\ UNCHANGED <<lifecycleVars, now, callVars>>

----------------------------------------------------------------------------
(* update_all_devices, under @Throttle(SCAN_INTERVAL) *)

\* the wrapper skips the call unless more than the interval has passed since the
\* last run; the design document keeps one such limit per account
Throttled(a) == throttle[a] # <<>> /\ ~(now - throttle[a][1] > SCAN_INTERVAL)

\* except Exception, and no except clause at all
CatchesEverything(exc) == TRUE
CatchesNothing(exc) == FALSE
\* line 265: except HTTPError
Catches(exc) == exc = "HTTPError"

Outcomes == {"ok", "HTTPError", "OtherError"}

\* async_setup_entry, lines 232-237, once update_all_devices has returned
ForwardPlatforms(a) ==
    /\ forwarded' = [forwarded EXCEPT ![a] = PlatformSet]
    /\ pending' = [pending EXCEPT ![a] = PlatformSet]
    /\ entry' = [entry EXCEPT ![a] = "loaded"]
    /\ pc' = [pc EXCEPT ![a] = "idle"]
    /\ idx' = [idx EXCEPT ![a] = 0]

\* an exception leaves update_all_devices and async_setup_entry
SetupRaises(a) ==
    /\ entry' = [entry EXCEPT ![a] = "setup_error"]
    /\ pc' = [pc EXCEPT ![a] = "idle"]
    /\ idx' = [idx EXCEPT ![a] = 0]
    /\ UNCHANGED <<forwarded, pending>>

\* async_setup_entry up to its first suspension
async_setup_entry(a) ==
    /\ phase = "running"
    /\ entry[a] \in {"not_loaded", "setup_error"}
    /\ data' = Put(data, a, NewClient)
    /\ cachedBefore' = [cachedBefore EXCEPT ![a] = NewClient.devices]
    /\ lastTrig' = [lastTrig EXCEPT ![a] = <<now>>]
    /\ IF Throttled(a)
       THEN /\ pollLog' = [pollLog EXCEPT ![a] = "throttled"]
            /\ ForwardPlatforms(a)
            /\ UNCHANGED <<throttle, lastFetch>>
       ELSE /\ throttle' = [throttle EXCEPT ![a] = <<now>>]
            /\ lastFetch' = [lastFetch EXCEPT ![a] = <<now>>]
            /\ pollLog' = [pollLog EXCEPT ![a] = "running"]
            /\ entry' = [entry EXCEPT ![a] = "setting_up"]
            /\ pc' = [pc EXCEPT ![a] = "fetch"]
            /\ forwarded' = [forwarded EXCEPT ![a] = {}]
            /\ UNCHANGED <<idx, pending>>
    /\ UNCHANGED <<startupVars, now, callVars, unloadResults, unloadReturn>>

\* line 262 returns: hc_api.get_devices ran on the executor
update_all_devices_get_devices(a, outcome) ==
    /\ pc[a] = "fetch"
    /\ IF outcome = "ok"
       THEN /\ data' = SetDevices(data, a, FreshDevices(a))
            /\ IF Len(FreshDevices(a)) = 0
               THEN /\ pollLog' = [pollLog EXCEPT ![a] = "ok"]
                    /\ ForwardPlatforms(a)
               ELSE /\ pc' = [pc EXCEPT ![a] = "init"]
                    /\ idx' = [idx EXCEPT ![a] = 1]
                    /\ UNCHANGED <<pollLog, forwarded, pending, entry>>
       ELSE /\ UNCHANGED data
            /\ pollLog' = [pollLog EXCEPT ![a] = "fetch_" \o outcome]
            /\ IF Catches(outcome) THEN ForwardPlatforms(a) ELSE SetupRaises(a)
    /\ UNCHANGED <<startupVars, now, callVars, throttle, cachedBefore, lastTrig, lastFetch,
                   unloadResults, unloadReturn>>

\* line 264 returns: device.initialize ran on the executor
update_all_devices_initialize(a, outcome) ==
    /\ pc[a] = "init"
    /\ IF outcome = "ok"
       THEN /\ data' = SetDevices(data, a,
                          [Get(data, a).devices EXCEPT ![idx[a]].initialized = TRUE])
            /\ IF idx[a] = Len(Get(data, a).devices)
               THEN /\ pollLog' = [pollLog EXCEPT ![a] = "ok"]
                    /\ ForwardPlatforms(a)
               ELSE /\ idx' = [idx EXCEPT ![a] = @ + 1]
                    /\ UNCHANGED <<pollLog, forwarded, pending, entry, pc>>
       ELSE /\ UNCHANGED data
            /\ pollLog' = [pollLog EXCEPT ![a] = "init_" \o outcome]
            /\ IF Catches(outcome) THEN ForwardPlatforms(a) ELSE SetupRaises(a)
    /\ UNCHANGED <<startupVars, now, callVars, throttle, cachedBefore, lastTrig, lastFetch,
                   unloadResults, unloadReturn>>

\* a task of lines 233-235 runs: the platform creates its entities
async_forward_entry_setup(a, platform) ==
    /\ platform \in pending[a]
    /\ Has(data, a)
    /\ pending' = [pending EXCEPT ![a] = @ \ {platform}]
    /\ data' = SetDevices(data, a, AttachEntities(Get(data, a).devices, platform))
    /\ UNCHANGED <<startupVars, now, callVars, entry, pc, idx, throttle, pollLog,
                   cachedBefore, forwarded, lastTrig, lastFetch,
                   unloadResults, unloadReturn>>

Tick ==
    /\ now + TickStep <= MaxTime
    /\ now' = now + TickStep
    /\ UNCHANGED <<startupVars, data, lifecycleVars, callVars>>

----------------------------------------------------------------------------
(* async_unload_entry *)

\* any(...) in place of all(...)
unload_ok_any(results) == \E p \in PlatformSet : results[p]
\* line 242: all(...) over the gathered results
unload_ok(results) == \A p \in PlatformSet : results[p]

\* lines 242-249 up to the await: the four teardowns are started
async_unload_entry_gather(a) ==
    /\ entry[a] = "loaded"
    /\ pending[a] = {}
    /\ entry' = [entry EXCEPT ![a] = "unloading"]
    /\ unloadResults' = [unloadResults EXCEPT ![a] = <<>>]
    /\ unloadReturn' = [unloadReturn EXCEPT ![a] = "none"]
    /\ UNCHANGED <<startupVars, data, now, callVars, pc, idx, throttle, pending, pollLog,
                   cachedBefore, forwarded, lastTrig, lastFetch>>

\* the gather returns with what each teardown reported; lines 250-253
async_unload_entry(a, results) ==
    /\ entry[a] = "unloading"
    /\ unloadResults' = [unloadResults EXCEPT ![a] = <<results>>]
    /\ IF unload_ok(results)
       THEN /\ data' = Pop(data, a)
            /\ entry' = [entry EXCEPT ![a] = "not_loaded"]
            /\ unloadReturn' = [unloadReturn EXCEPT ![a] = "true"]
       ELSE /\ UNCHANGED data
            /\ entry' = [entry EXCEPT ![a] = "failed_unload"]
            /\ unloadReturn' = [unloadReturn EXCEPT ![a] = "false"]
    /\ UNCHANGED <<startupVars, now, callVars, pc, idx, throttle, pending, pollLog,
                   cachedBefore, forwarded, lastTrig, lastFetch>>

----------------------------------------------------------------------------
(* The service handlers *)

\* the shape the three generic handlers share: validate, resolve, and submit the
\* vendor call to the executor if resolved
ServiceCall(service, req) ==
    /\ phase = "running"
    /\ service \in services
    /\ dispatched < MaxDispatches
    /\ dispatched' = dispatched + 1
    /\ LET d == Validate(service, req)
           appliance == _get_appliance_by_entity_id(data, d.entity_id)
           submitted == IF appliance # NoTarget
                        THEN <<VendorJob(service, d, appliance)>> ELSE <<>>
       IN /\ jobs' = jobs \o submitted
          /\ lastDispatch' =
                IF observe
                THEN [service |-> service, entity_id |-> req.entity_id,
                      owned |-> Owned(data, req.entity_id), target |-> appliance,
                      outcome |-> IF appliance # NoTarget THEN "submitted" ELSE "skipped",
                      request |-> req, submitted |-> submitted]
                ELSE lastDispatch
    /\ UNCHANGED <<startupVars, data, now, lifecycleVars, calls, observe>>

_async_service_program(service, req) ==
    service \in ProgramServices /\ ServiceCall(service, req)

_async_service_command(service, req) ==
    service \in CommandServices /\ ServiceCall(service, req)

_async_service_key_value(service, req) ==
    service \in KeyValueServices /\ ServiceCall(service, req)

\* the executor finishes a vendor call
VendorCallDone(i) ==
    /\ i \in 1..Len(jobs)
    /\ calls' = Append(calls, jobs[i])
    /\ jobs' = [k \in 1..(Len(jobs) - 1) |-> IF k < i THEN jobs[k] ELSE jobs[k + 1]]
    /\ UNCHANGED <<startupVars, data, now, lifecycleVars, dispatched, observe, lastDispatch>>

----------------------------------------------------------------------------
(* Requests the model sends *)

ProgramName == StrV("Cotton")
SettingKey == StrV("BSH.Common.Setting.PowerState")

\* one request per service and entity, for the lifecycle specification
PlainRequests(service) ==
    IF service \in KeyValueServices
    THEN {Request(e, NoneV, SettingKey, StrV("On"), NoneV, NoneV, NoneV) : e \in EntityIds}
    ELSE IF service \in ProgramServices
    THEN {Request(e, ProgramName, NoneV, NoneV, NoneV, NoneV, NoneV) : e \in EntityIds}
    ELSE {Request(e, NoneV, NoneV, NoneV, NoneV, NoneV, NoneV) : e \in EntityIds}

OptionKeys == {NoneV, StrV("Temperature")}
OptionValues == {NoneV, IntV(0), IntV(60), StrV("hot")}
OptionUnits == {NoneV, StrV("C")}
SettingValues == {IntV(60), IntV(0), StrV("On")}
\* the entities the payload-carrying services are called for
PayloadEntities == {"switch.washer", "switch.ghost"}

\* the valid requests of the dispatch specification
ValidRequests(service) ==
    IF service \in KeyValueServices
    THEN {Request(e, NoneV, SettingKey, v, NoneV, NoneV, NoneV) :
            e \in PayloadEntities, v \in SettingValues}
    ELSE IF service \in ProgramServices
    THEN {Request(e, ProgramName, NoneV, NoneV, k, v, u) :
            e \in PayloadEntities, k \in OptionKeys, v \in OptionValues, u \in OptionUnits}
    ELSE {Request(e, NoneV, NoneV, NoneV, NoneV, NoneV, NoneV) : e \in EntityIds}

----------------------------------------------------------------------------
(* The lifecycle specification: setup, polling, unloading, and the clock *)

\* what the four teardowns may report: all succeed, one fails, all fail
TeardownResults ==
    {[p \in PlatformSet |-> TRUE], [p \in PlatformSet |-> FALSE]}
      \cup {[p \in PlatformSet |-> p # q] : q \in PlatformSet}

Next ==
    \/ \E inConfig \in BOOLEAN : async_setup(inConfig)
    \/ \E a \in Accounts : async_setup_entry(a)
    \/ \E a \in Accounts, outcome \in Outcomes : update_all_devices_get_devices(a, outcome)
    \/ \E a \in Accounts, outcome \in Outcomes : update_all_devices_initialize(a, outcome)
    \/ \E a \in Accounts, platform \in PlatformSet : async_forward_entry_setup(a, platform)
    \/ \E a \in Accounts : async_unload_entry_gather(a)
    \/ \E a \in Accounts, results \in TeardownResults : async_unload_entry(a, results)
    \/ Tick

Spec == Init /\ [][Next]_vars

----------------------------------------------------------------------------
(* The command specification: the lifecycle at one instant of the clock,    *)
(* interleaved with service calls and the executor                          *)

\* the entities the services are called for: one of each account, one of nobody
CommandEntities == {"switch.washer", "switch.dryer", "switch.ghost"}
CommandRequests(service) == {r \in PlainRequests(service) : r.entity_id \in CommandEntities}
CommandOutcomes == {"ok"}
CommandTeardowns == {[p \in PlatformSet |-> TRUE], [p \in PlatformSet |-> p # "light"]}

NextCommands ==
    \/ \E inConfig \in BOOLEAN : async_setup(inConfig)
    \/ \E a \in Accounts : async_setup_entry(a)
    \/ \E a \in Accounts, outcome \in CommandOutcomes : update_all_devices_get_devices(a, outcome)
    \/ \E a \in Accounts, outcome \in CommandOutcomes : update_all_devices_initialize(a, outcome)
    \/ \E a \in Accounts, platform \in PlatformSet : async_forward_entry_setup(a, platform)
    \/ \E a \in Accounts : async_unload_entry_gather(a)
    \/ \E a \in Accounts, results \in CommandTeardowns : async_unload_entry(a, results)
    \/ \E service \in AllServices : \E req \in CommandRequests(service) :
            _async_service_program(service, req)
    \/ \E service \in AllServices : \E req \in CommandRequests(service) :
            _async_service_command(service, req)
    \/ \E service \in AllServices : \E req \in CommandRequests(service) :
            _async_service_key_value(service, req)
    \/ \E i \in 1..MaxDispatches : VendorCallDone(i)

SpecCommands == Init /\ [][NextCommands]_vars

----------------------------------------------------------------------------
(* The dispatch specification: every valid request against registries the   *)
(* lifecycle can produce                                                    *)

RECURSIVE AttachAll(_, _)
AttachAll(devs, platforms) ==
    IF platforms = {} THEN devs
    ELSE LET p == CHOOSE q \in platforms : TRUE
         IN AttachAll(AttachEntities(devs, p), platforms \ {p})

\* device lists of a client in the registry: none fetched yet, or the fetched
\* devices with the entities of the platforms that have run
Initialized(devs) == [i \in 1..Len(devs) |-> [devs[i] EXCEPT !.initialized = TRUE]]
ClientDevices(a) ==
    {<<>>} \cup {AttachAll(Initialized(FreshDevices(a)), ps) :
                   ps \in SUBSET {"sensor", "switch"}}
\* the platforms whose entities the devices do not hold yet
NotYetRun(devs) ==
    {p \in PlatformSet :
        \E i \in 1..Len(devs) : ~(PlatformEntities(devs[i].appliance, p) \subseteq devs[i].entities)}

OneEntry(a) == {<<[entry_id |-> a, devices |-> d]>> : d \in ClientDevices(a)}

RegistrySamples ==
    {EmptyRegistry}
      \cup UNION {OneEntry(a) : a \in Accounts}
      \cup UNION {{x \o y : x \in OneEntry(pair[1]), y \in OneEntry(pair[2])} :
                  pair \in {q \in Accounts \X Accounts : q[1] # q[2]}}

InitDispatch ==
    /\ phase = "running"
    /\ configured = TRUE
    /\ setupResult = "true"
    /\ services = RegisteredServices(TRUE)
    /\ data \in RegistrySamples
    /\ entry = [a \in Accounts |-> IF Has(data, a) THEN "loaded" ELSE "not_loaded"]
    /\ pc = [a \in Accounts |-> "idle"]
    /\ idx = [a \in Accounts |-> 0]
    /\ throttle = [a \in Accounts |-> IF Has(data, a) THEN <<0>> ELSE <<>>]
    /\ now = 0
    /\ pending = [a \in Accounts |->
                    IF Has(data, a) THEN NotYetRun(Get(data, a).devices) ELSE {}]
    /\ jobs = <<>>
    /\ calls = <<>>
    /\ pollLog = [a \in Accounts |->
                    IF ~Has(data, a) THEN "none"
                    ELSE IF Get(data, a).devices = <<>> THEN "fetch_HTTPError" ELSE "ok"]
    /\ cachedBefore = [a \in Accounts |-> <<>>]
    /\ forwarded = [a \in Accounts |-> IF Has(data, a) THEN PlatformSet ELSE {}]
    /\ lastTrig = [a \in Accounts |-> IF Has(data, a) THEN <<0>> ELSE <<>>]
    /\ lastFetch = [a \in Accounts |-> IF Has(data, a) THEN <<0>> ELSE <<>>]
    /\ unloadResults = [a \in Accounts |-> <<>>]
    /\ unloadReturn = [a \in Accounts |-> "none"]
    /\ dispatched = 0
    /\ observe = TRUE
    /\ lastDispatch = NoDispatch

NextDispatch ==
    \/ \E service \in AllServices : \E req \in ValidRequests(service) :
            _async_service_program(service, req)
    \/ \E service \in AllServices : \E req \in ValidRequests(service) :
            _async_service_command(service, req)
    \/ \E service \in AllServices : \E req \in ValidRequests(service) :
            _async_service_key_value(service, req)
    \/ \E i \in 1..MaxDispatches : VendorCallDone(i)

SpecDispatch == InitDispatch /\ [][NextDispatch]_vars

----------------------------------------------------------------------------
(* Properties *)

Names(devs) == [i \in 1..Len(devs) |-> devs[i].appliance]
OneMinute == 60

\* the step is async_setup_entry calling update_all_devices for the account
IsTrigger(a) ==
    entry[a] \in {"not_loaded", "setup_error"} /\ entry'[a] \in {"setting_up", "loaded"}
\* the step submits get_devices for the account
StartsFetch(a) == pc'[a] = "fetch"
FetchRan(a) == pollLog[a] \in {"ok", "fetch_HTTPError", "init_HTTPError"}

\* C1: async_unload_entry returns True and removes the account's entry exactly
\* when all four teardowns reported success; otherwise it returns False and the
\* registry, this account's entry and every other account's, is as it was.
C1_UnloadAllOrNothing ==
    [][\A a \in Accounts :
         /\ (entry[a] = "loaded" /\ entry'[a] = "unloading") => data' = data
         /\ (entry[a] = "unloading" /\ entry'[a] # "unloading") =>
               LET r == unloadResults'[a][1]
                   allOk == \A p \in PlatformSet : r[p]
               IN /\ unloadReturn'[a] = (IF allOk THEN "true" ELSE "false")
                  /\ allOk => /\ ~Has(data', a)
                              /\ \A b \in Accounts \ {a} :
                                   /\ Has(data', b) <=> Has(data, b)
                                   /\ Has(data, b) => Get(data', b) = Get(data, b)
                  /\ ~allOk => data' = data]_vars

\* an unload in which exactly one teardown failed has returned False, with the
\* account and another one still in the registry
C1_Witness ==
    \E a \in Accounts :
        /\ unloadReturn[a] = "false"
        /\ unloadResults[a] # <<>>
        /\ Cardinality({p \in PlatformSet : ~unloadResults[a][1][p]}) = 1
        /\ Has(data, a)
        /\ \E b \in Accounts \ {a} : Has(data, b)

\* C3: whenever platform setup has been triggered for an account, the account's
\* client is in the registry and its device fetch has run.
C3_PollBeforePlatforms ==
    \A a \in Accounts :
        (entry[a] = "loaded" /\ forwarded[a] # {}) => (Has(data, a) /\ FetchRan(a))

C5_TransportFailureKeepsCache ==
    \A a \in Accounts :
        (pollLog[a] \in {"fetch_HTTPError", "init_HTTPError"} /\ Has(data, a)) =>
            /\ entry[a] # "setup_error"
            /\ Names(Get(data, a).devices) = Names(cachedBefore[a])

\* C5 amended: an HTTPError never leaves the poll cycle (setup goes on to forward
\* the platforms); met in the fetch, the device list is the one cached before; met
\* in an initialization, the device list is the newly fetched one, initialized up
\* to the device that failed.
C5_TransportFailureCaught ==
    \A a \in Accounts :
        /\ (pollLog[a] = "fetch_HTTPError" /\ Has(data, a)) =>
              /\ entry[a] # "setup_error"
              /\ forwarded[a] = PlatformSet
              /\ Names(Get(data, a).devices) = Names(cachedBefore[a])
        /\ (pollLog[a] = "init_HTTPError" /\ Has(data, a)) =>
              /\ entry[a] # "setup_error"
              /\ forwarded[a] = PlatformSet
              /\ Names(Get(data, a).devices) = VendorAppliances(a)
              /\ \E k \in 1..Len(Get(data, a).devices) :
                    \A i \in 1..Len(Get(data, a).devices) :
                        Get(data, a).devices[i].initialized <=> i < k

\* the initialization of the second device met an HTTPError: setup went on, with
\* the first device initialized and the second not
C5_Witness ==
    \E a \in Accounts :
        /\ pollLog[a] = "init_HTTPError"
        /\ entry[a] = "loaded"
        /\ Has(data, a)
        /\ Len(Get(data, a).devices) = 2
        /\ Get(data, a).devices[1].initialized
        /\ ~Get(data, a).devices[2].initialized

\* C10: after a poll cycle of a setup met an error other than HTTPError, the setup
\* has failed with it, no platform setup was triggered, and the client stored
\* before the poll is still in the registry.
C10_OtherErrorPropagates ==
    \A a \in Accounts :
        pollLog[a] \in {"fetch_OtherError", "init_OtherError"} =>
            /\ entry[a] = "setup_error"
            /\ forwarded[a] = {}
            /\ pending[a] = {}
            /\ Has(data, a)

\* an initialization raised another error: the setup failed, the devices fetched
\* stay in the registry
C10_Witness ==
    \E a \in Accounts :
        /\ pollLog[a] = "init_OtherError"
        /\ entry[a] = "setup_error"
        /\ Has(data, a)
        /\ Len(Get(data, a).devices) > 0

\* C8: async_setup returns True and leaves the registry empty either way, and it
\* registers the seven services exactly when DOMAIN is in the configuration;
\* without it no service exists, so no vendor call is ever submitted or made,
\* whatever accounts are set up afterwards.
C8_ServicesOnlyWhenConfigured ==
    /\ [](phase = "running" =>
            /\ setupResult = "true"
            /\ configured => services = AllServices /\ Cardinality(services) = 7
            /\ ~configured => services = {} /\ jobs = <<>> /\ calls = <<>>)
    /\ [][(phase = "boot" /\ phase' = "running") => data' = EmptyRegistry]_vars

\* started without the configuration section, an account is set up and its washer
\* switch entity exists, and there is no service to call
C8_Witness ==
    /\ phase = "running"
    /\ ~configured
    /\ services = {}
    /\ \E a \in Accounts : entry[a] = "loaded"
    /\ Owned(data, "switch.washer")

\* C9: a vendor call submitted to the executor stays there until it completes,
\* whatever is unloaded meanwhile; and a vendor call is only ever submitted on an
\* appliance whose account is in the registry at that moment.
C9_RemovalAndCommands ==
    [][/\ Len(jobs') + Len(calls') >= Len(jobs) + Len(calls)
       /\ Len(calls') >= Len(calls)
       /\ \A i \in 1..Len(calls) : calls'[i] = calls[i]
       /\ \A i \in 1..Len(jobs) :
            \/ \E k \in 1..Len(jobs') : jobs'[k] = jobs[i]
            \/ Len(calls') = Len(calls) + 1 /\ calls'[Len(calls')] = jobs[i]
       /\ Len(jobs') > Len(jobs) =>
            /\ Has(data, OwnerOf(jobs'[Len(jobs')].appliance))
            /\ entry[OwnerOf(jobs'[Len(jobs')].appliance)] # "not_loaded"]_vars

\* a vendor call completed on an appliance whose account had been removed from
\* the registry while the call was running
C9_Witness ==
    \E i \in 1..Len(calls) :
        /\ ~Has(data, OwnerOf(calls[i].appliance))
        /\ unloadReturn[OwnerOf(calls[i].appliance)] = "true"
        /\ entry[OwnerOf(calls[i].appliance)] = "not_loaded"

\* C2: a call of any of the seven services for an entity that no device of a
\* registered account owns resolves to no target and submits no vendor call.
C2_UnownedEntitySkipped ==
    (lastDispatch.service \in AllServices /\ ~lastDispatch.owned) =>
        /\ lastDispatch.target = NoTarget
        /\ lastDispatch.outcome = "skipped"
        /\ lastDispatch.submitted = <<>>

\* the washer's switch was addressed while the washer's account was registered
\* with entities of its own, but not that one: the call was skipped
C2_Witness ==
    /\ lastDispatch.service \in AllServices
    /\ lastDispatch.entity_id = "switch.washer"
    /\ ~lastDispatch.owned
    /\ lastDispatch.outcome = "skipped"
    /\ Owned(data, "sensor.washer")

\* C6: select_program / start_program is submitted once with (program, options);
\* options is a one-element list holding key and value, and the unit when one is
\* given, exactly when both option key and option value are given, and None in
\* every other case.
C6_OptionsBundled ==
    (lastDispatch.service \in ProgramServices /\ lastDispatch.outcome = "submitted") =>
        LET r == lastDispatch.request
            both == r.option_key # NoneV /\ r.option_value # NoneV
        IN /\ Len(lastDispatch.submitted) = 1
           /\ LET job == lastDispatch.submitted[1]
              IN /\ job.method = (IF lastDispatch.service = SERVICE_SELECT
                                  THEN "select_program" ELSE "start_program")
                 /\ job.args = <<r.program>>
                 /\ both <=> job.options.kind = "list"
                 /\ ~both <=> job.options.kind = "none"
                 /\ both =>
                      /\ Len(job.options.items) = 1
                      /\ job.options.items[1].key = r.option_key
                      /\ job.options.items[1].value = r.option_value
                      /\ job.options.items[1].keys =
                            (IF r.option_unit # NoneV
                             THEN {"key", "value", "unit"} ELSE {"key", "value"})
                      /\ r.option_unit # NoneV =>
                            job.options.items[1].unit = r.option_unit

\* start_program was called with key, the value 0 and a unit: the vendor call
\* completed carrying the three of them
C6_Witness ==
    /\ lastDispatch.service = SERVICE_START
    /\ lastDispatch.request.option_key = StrV("Temperature")
    /\ lastDispatch.request.option_value = IntV(0)
    /\ lastDispatch.request.option_unit = StrV("C")
    /\ Len(calls) = 1
    /\ calls[1].method = "start_program"
    /\ calls[1].options.kind = "list"

\* the vendor method a key-value service is to call, and the appliance that owns
\* an entity
ExpectedMethod(service) ==
    IF service = SERVICE_SETTING THEN "set_setting"
    ELSE IF service = SERVICE_OPTION_ACTIVE THEN "set_options_active_program"
    ELSE "set_options_selected_program"
ExpectedAppliance(entity_id) ==
    CHOOSE x \in Appliances : \E p \in PlatformSet : entity_id \in PlatformEntities(x, p)

\* C7 as stated: a key-value service submits exactly one vendor call, of its
\* method, on the owning appliance, with the key and the value of the request.
C7_KeyValueUnmodified ==
    (lastDispatch.service \in KeyValueServices /\ lastDispatch.outcome = "submitted") =>
        /\ Len(lastDispatch.submitted) = 1
        /\ lastDispatch.submitted[1].method = ExpectedMethod(lastDispatch.service)
        /\ lastDispatch.submitted[1].appliance = ExpectedAppliance(lastDispatch.entity_id)
        /\ lastDispatch.submitted[1].args =
              <<lastDispatch.request.key, lastDispatch.request.value>>

\* C7 amended: ... with the key of the request and str(value) of its value: a
\* string value is passed as it is, an integer as its decimal string.
C7_KeyValueCoerced ==
    (lastDispatch.service \in KeyValueServices /\ lastDispatch.outcome = "submitted") =>
        /\ Len(lastDispatch.submitted) = 1
        /\ lastDispatch.submitted[1].method = ExpectedMethod(lastDispatch.service)
        /\ lastDispatch.submitted[1].appliance = ExpectedAppliance(lastDispatch.entity_id)
        /\ lastDispatch.submitted[1].options = NotPassed
        /\ lastDispatch.submitted[1].args[1] = lastDispatch.request.key
        /\ lastDispatch.submitted[1].args[2] =
              (IF lastDispatch.request.value = IntV(60) THEN StrV("60")
               ELSE IF lastDispatch.request.value = IntV(0) THEN StrV("0")
               ELSE lastDispatch.request.value)
        /\ Len(lastDispatch.submitted[1].args) = 2

\* change_setting was called with the integer 60 and set_setting completed with
\* the string "60"
C7_Witness ==
    /\ lastDispatch.service = SERVICE_SETTING
    /\ lastDispatch.request.value = IntV(60)
    /\ Len(calls) = 1
    /\ calls[1].method = "set_setting"
    /\ calls[1].args = <<SettingKey, StrV("60")>>

====
